---- MODULE Spec2Model ----
(***************************************************************************)
(* A model of src/bot_boticav3.py: the filtered parallel catalogue         *)
(* harvester (text normalisation, the MINSA name filter, the price parser, *)
(* the worker, the category paginator and the main block).                 *)
(*                                                                         *)
(* A Python str is a sequence of code points.  Each code point is named by *)
(* a short ASCII string: "a^" is the precomposed a-acute (U+00E1), "A^"    *)
(* its capital (U+00C1), "^" the combining acute accent (U+0301, category  *)
(* Mn) and "sz" the sharp s (U+00DF), whose upper case is the two letters  *)
(* "SS".  A float holding a two-decimal price is kept exactly, as the      *)
(* integer number of hundredths.                                           *)
(***************************************************************************)
EXTENDS Integers, Sequences, FiniteSets, Bags, TLC

VARIABLES
    \* ---- the run (module globals, the locals of procesar_categoria, the pool)
    pc,                  \* position of the main thread
    archivo,             \* lista_minsa.txt: [existe, lineas]
    LISTA_MINSA,         \* the global set of reference names
    cats,                \* the list returned by descubrir_categorias_menu
    icat,                \* index in cats of the category being processed
    page,                \* the local page of procesar_categoria
    soup,                \* the listing page held by procesar_categoria
    tareas_para_workers, \* the candidates of the current page
    wpc,                 \* position of each worker invocation of the page
    sopas,               \* what obtener_sopa(link) returned to each worker
    resultados,          \* what each worker invocation returned
    DATOS_RECOPILADOS,   \* the global result list
    excel,               \* the rows written by df.to_excel
    mundo,               \* what is left of the finite site the run crawls:
                         \* [listados, cards, relleno]
    \* ---- history of the run
    peticiones,          \* bag of the GET requests issued so far
    traza,               \* per worker invocation: the steps it has taken
    cat_hist,            \* per page requested in the current category: what came of it
    \* ---- the text functions called on their own
    fase,                \* "entrada", then "una", "dos" or "hecho"
    texto,               \* the argument of normalizar
    variante,            \* texto with letter case and accents changed
    res1, res2, resv,    \* normalizar(texto), normalizar(res1), normalizar(variante)
    nombre_producto_web, \* the argument of cumple_filtro_minsa
    cumple,              \* its result
    texto_precio,        \* the argument of analizar_precios
    precios              \* its result

vars == <<pc, archivo, LISTA_MINSA, cats, icat, page, soup, tareas_para_workers,
          wpc, sopas, resultados, DATOS_RECOPILADOS, excel, mundo, peticiones,
          traza, cat_hist, fase, texto, variante, res1, res2, resv,
          nombre_producto_web, cumple, texto_precio, precios>>

varsRun == <<pc, archivo, cats, icat, page, soup, tareas_para_workers,
             wpc, sopas, resultados, DATOS_RECOPILADOS, excel, mundo, peticiones,
             traza, cat_hist>>

varsTexto == <<fase, texto, variante, res1, res2, resv,
               nombre_producto_web, cumple, texto_precio, precios>>

(***************************************************************************)
(* Sequences                                                               *)
(***************************************************************************)
RECURSIVE Aplanar(_)
Aplanar(ss) == IF ss = <<>> THEN <<>> ELSE Head(ss) \o Aplanar(Tail(ss))

\* the sequences over S of length 0..n
SeqHasta(S, n) == UNION {[1..k -> S] : k \in 0..n}

\* ''.join(c for c in s if unicodedata.category(c) != 'Mn')
EsMn(c) == c = "^"
SinMarcas(s) == SelectSeq(s, LAMBDA c : ~EsMn(c))

\* Python's  p in s  on str
EsSubcadena(p, s) ==
    \E i \in 1..(Len(s) - Len(p) + 1) : SubSeq(s, i, i + Len(p) - 1) = p

\* Python's  s.startswith(p)
EmpiezaCon(s, p) == Len(p) <= Len(s) /\ SubSeq(s, 1, Len(p)) = p

Min(S) == CHOOSE x \in S : \A y \in S : x <= y
Max(S) == CHOOSE x \in S : \A y \in S : y <= x

(***************************************************************************)
(* 1. Text tools and filters                                               *)
(***************************************************************************)
Str(s) == [tipo |-> "str", val |-> s]
None == [tipo |-> "NoneType", val |-> <<>>]

\* str.upper() of one code point (full case mapping: it may give two)
upper(c) ==
    CASE c = "a"  -> <<"A">>
      [] c = "a^" -> <<"A^">>
      [] c = "s"  -> <<"S">>
      [] c = "l"  -> <<"L">>
      [] c = "sz" -> <<"S", "S">>
      [] OTHER    -> <<c>>

\* the canonical decomposition (NFD) of one code point
NFD(c) ==
    CASE c = "a^" -> <<"a", "^">>
      [] c = "A^" -> <<"A", "^">>
      [] OTHER    -> <<c>>

\* (normalizar without the upper())
NormalizarMutSinUpper(t) ==
    IF t.tipo # "str" THEN <<>>
    ELSE SinMarcas(Aplanar([i \in 1..Len(t.val) |-> NFD(t.val[i])]))

normalizar(t) ==
    IF t.tipo # "str" THEN <<>>
    ELSE LET mayus == Aplanar([i \in 1..Len(t.val) |-> upper(t.val[i])])
             nfd   == Aplanar([i \in 1..Len(mayus) |-> NFD(mayus[i])])
         IN  SinMarcas(nfd)

EsEspacio(c) == c = " "

\* str.strip()
RECURSIVE strip(_)
strip(s) ==
    IF s = <<>> THEN s
    ELSE IF EsEspacio(Head(s)) THEN strip(Tail(s))
    ELSE IF EsEspacio(s[Len(s)]) THEN strip(SubSeq(s, 1, Len(s) - 1))
    ELSE s

\* the set cargar_filtro_txt builds from the lines of the file
LineasAFiltro(lineas) ==
    {normalizar(Str(strip(lineas[i]))) :
        i \in {j \in 1..Len(lineas) : Len(strip(lineas[j])) > 3}}

\* the three tests of line 104
\* (the first test without the spaces added around the name)
PalabraEnteraMutSinRelleno(med, nombre_norm) ==
    EsSubcadena(<<" ">> \o med \o <<" ">>, nombre_norm)

palabra_entera(med, nombre_norm) ==
    EsSubcadena(<<" ">> \o med \o <<" ">>, <<" ">> \o nombre_norm \o <<" ">>)
inicio_de_frase(med, nombre_norm) == EmpiezaCon(nombre_norm, med \o <<" ">>)
igual(med, nombre_norm) == med = nombre_norm

\* (a plain substring test, without the padding spaces)
CoincideMutSubcadena(med, nombre_norm) == EsSubcadena(med, nombre_norm)

coincide(med, nombre_norm) ==
    \/ palabra_entera(med, nombre_norm)
    \/ inicio_de_frase(med, nombre_norm)
    \/ igual(med, nombre_norm)

cumple_filtro_minsa(nombre) ==
    LET nombre_norm == normalizar(Str(nombre))
    IN  \E med \in LISTA_MINSA : coincide(med, nombre_norm)

\* \d of the regular expression
Digitos == {"0", "1", "2", "5", "7"}
ValorDigito(c) ==
    CASE c = "0" -> 0 [] c = "1" -> 1 [] c = "2" -> 2 [] c = "5" -> 5 [] c = "7" -> 7

RECURSIVE ValorEntero(_)
ValorEntero(ds) ==
    IF ds = <<>> THEN 0
    ELSE 10 * ValorEntero(SubSeq(ds, 1, Len(ds) - 1)) + ValorDigito(ds[Len(ds)])

\* float(n) of a match  d+ . d d , in hundredths
float(n) ==
    100 * ValorEntero(SubSeq(n, 1, Len(n) - 3)) + ValorEntero(SubSeq(n, Len(n) - 1, Len(n)))

\* the last index of the run of digits that starts at i
RECURSIVE FinDigitos(_, _)
FinDigitos(s, i) ==
    IF i < Len(s) /\ s[i + 1] \in Digitos THEN FinDigitos(s, i + 1) ELSE i

\* where a match of  \d+\.\d{2}  that starts at i ends; 0 when none starts there
FinCoincidencia(s, i) ==
    IF s[i] \notin Digitos THEN 0
    ELSE LET j == FinDigitos(s, i)
         IN  IF /\ j + 3 <= Len(s)
                /\ s[j + 1] = "."
                /\ s[j + 2] \in Digitos
                /\ s[j + 3] \in Digitos
             THEN j + 3 ELSE 0

\* re.findall(r'(\d+\.\d{2})', s) from index i on: leftmost, not overlapping
RECURSIVE findall(_, _)
findall(s, i) ==
    IF i > Len(s) THEN <<>>
    ELSE LET e == FinCoincidencia(s, i)
         IN  IF e > 0 THEN <<SubSeq(s, i, e)>> \o findall(s, e + 1)
             ELSE findall(s, i + 1)

analizar_precios(texto_p) ==
    IF texto_p.tipo # "str" \/ texto_p.val = <<>> THEN <<0, 0>>
    ELSE LET numeros == findall(texto_p.val, 1)
             valores == {float(numeros[k]) : k \in 1..Len(numeros)}
         IN  IF numeros = <<>> THEN <<0, 0>>
             ELSE <<Min(valores), Max(valores)>>

(***************************************************************************)
(* Bounds                                                                  *)
(***************************************************************************)
MaxLen == 3        \* longest argument of normalizar
MaxTrozos == 3     \* most pieces a product name or a price label is made of

(***************************************************************************)
(* The text functions called on their own: the arguments are drawn by      *)
(* Init, one action applies the function.                                  *)
(***************************************************************************)
RunInactivo ==
    /\ pc = "inactivo"
    /\ archivo = [existe |-> FALSE, lineas |-> <<>>]
    /\ cats = <<>>
    /\ icat = 0
    /\ page = 0
    /\ soup = [ok |-> FALSE, cards |-> <<>>, next |-> FALSE]
    /\ tareas_para_workers = <<>>
    /\ wpc = <<>>
    /\ sopas = <<>>
    /\ resultados = <<>>
    /\ DATOS_RECOPILADOS = <<>>
    /\ excel = [escrito |-> FALSE, filas |-> <<>>]
    /\ mundo = [listados |-> 0, cards |-> 0, relleno |-> 0]
    /\ peticiones = EmptyBag
    /\ traza = <<>>
    /\ cat_hist = <<>>

TextoInactivo ==
    /\ fase = "inactivo"
    /\ texto = None
    /\ variante = None
    /\ res1 = <<>>
    /\ res2 = <<>>
    /\ resv = <<>>
    /\ nombre_producto_web = <<>>
    /\ cumple = FALSE
    /\ texto_precio = None
    /\ precios = <<0, 0>>

\* ---- normalizar
AlfabetoTexto == {"a", "A", "a^", "A^", "^", "sz"}
NoTextos == {None, [tipo |-> "int", val |-> <<>>], [tipo |-> "bytes", val |-> <<"a">>]}
Objetos == {Str(s) : s \in SeqHasta(AlfabetoTexto, MaxLen)} \cup NoTextos

InitNormalizar ==
    /\ RunInactivo
    /\ LISTA_MINSA = {}
    /\ fase = "entrada"
    /\ texto \in Objetos
    /\ variante = texto
    /\ res1 = <<>> /\ res2 = <<>> /\ resv = <<>>
    /\ nombre_producto_web = <<>> /\ cumple = FALSE
    /\ texto_precio = None /\ precios = <<0, 0>>

\* the same letter in the other case; the same letter with or without its accent
OtraCaja(c) ==
    CASE c = "a" -> "A" [] c = "A" -> "a" [] c = "a^" -> "A^" [] c = "A^" -> "a^"
      [] OTHER -> c
OtraTilde(c) ==
    CASE c = "a" -> "a^" [] c = "a^" -> "a" [] c = "A" -> "A^" [] c = "A^" -> "A"
      [] OTHER -> c

Reemplazar(s, i, c) == [s EXCEPT ![i] = c]
Insertar(s, i, c) == SubSeq(s, 1, i) \o <<c>> \o SubSeq(s, i + 1, Len(s))
Borrar(s, i) == SubSeq(s, 1, i - 1) \o SubSeq(s, i + 1, Len(s))

UNCHANGED_Normalizar ==
    UNCHANGED <<varsRun, LISTA_MINSA, texto, nombre_producto_web, cumple, texto_precio, precios>>

CambiarCaja(i) ==
    /\ fase = "entrada" /\ variante.tipo = "str"
    /\ OtraCaja(variante.val[i]) # variante.val[i]
    /\ variante' = Str(Reemplazar(variante.val, i, OtraCaja(variante.val[i])))
    /\ UNCHANGED <<fase, res1, res2, resv>>
    /\ UNCHANGED_Normalizar

CambiarTilde(i) ==
    /\ fase = "entrada" /\ variante.tipo = "str"
    /\ OtraTilde(variante.val[i]) # variante.val[i]
    /\ variante' = Str(Reemplazar(variante.val, i, OtraTilde(variante.val[i])))
    /\ UNCHANGED <<fase, res1, res2, resv>>
    /\ UNCHANGED_Normalizar

PonerTilde(i) ==
    /\ fase = "entrada" /\ variante.tipo = "str"
    /\ Len(variante.val) < MaxLen
    /\ variante' = Str(Insertar(variante.val, i, "^"))
    /\ UNCHANGED <<fase, res1, res2, resv>>
    /\ UNCHANGED_Normalizar

QuitarTilde(i) ==
    /\ fase = "entrada" /\ variante.tipo = "str"
    /\ variante.val[i] = "^"
    /\ variante' = Str(Borrar(variante.val, i))
    /\ UNCHANGED <<fase, res1, res2, resv>>
    /\ UNCHANGED_Normalizar

Normalizar1 ==
    /\ fase = "entrada"
    /\ res1' = normalizar(texto)
    /\ resv' = normalizar(variante)
    /\ fase' = "una"
    /\ UNCHANGED <<variante, res2>>
    /\ UNCHANGED_Normalizar

Normalizar2 ==
    /\ fase = "una"
    /\ res2' = normalizar(Str(res1))
    /\ fase' = "dos"
    /\ UNCHANGED <<variante, res1, resv>>
    /\ UNCHANGED_Normalizar

NextNormalizar ==
    \/ \E i \in 1..MaxLen : i <= Len(variante.val) /\ CambiarCaja(i)
    \/ \E i \in 1..MaxLen : i <= Len(variante.val) /\ CambiarTilde(i)
    \/ \E i \in 0..MaxLen : i <= Len(variante.val) /\ PonerTilde(i)
    \/ \E i \in 1..MaxLen : i <= Len(variante.val) /\ QuitarTilde(i)
    \/ Normalizar1
    \/ Normalizar2

SpecNormalizar == InitNormalizar /\ [][NextNormalizar]_vars

\* ---- cumple_filtro_minsa
TrozosNombre ==
    {<<"S", "A", "L">>, <<"E", "N">>, <<"A", "D", "A">>, <<" ">>, <<"s", "a^", "l">>}
Candidatos == {Aplanar(ts) : ts \in SeqHasta(TrozosNombre, MaxTrozos)}

\* Every str is a possible entry of LISTA_MINSA: a line made of the entry and
\* enough combining accents is longer than 3 and normalizes to the entry.
EntradasFiltro ==
    {<<"S", "A", "L">>, <<"A", "D", "A">>, <<"S", "A", "L", " ", "A", "D", "A">>, <<>>}

InitFiltro ==
    /\ RunInactivo
    /\ LISTA_MINSA \in SUBSET EntradasFiltro
    /\ fase = "entrada"
    /\ nombre_producto_web \in Candidatos
    /\ cumple = FALSE
    /\ texto = None /\ variante = None
    /\ res1 = <<>> /\ res2 = <<>> /\ resv = <<>>
    /\ texto_precio = None /\ precios = <<0, 0>>

AplicarFiltro ==
    /\ fase = "entrada"
    /\ cumple' = cumple_filtro_minsa(nombre_producto_web)
    /\ fase' = "hecho"
    /\ UNCHANGED <<varsRun, LISTA_MINSA, texto, variante, res1, res2, resv,
                   nombre_producto_web, texto_precio, precios>>

NextFiltro == AplicarFiltro

SpecFiltro == InitFiltro /\ [][NextFiltro]_vars

\* ---- analizar_precios
TrozosPrecio ==
    {<<"1", "2", ".", "5", "0">>, <<"7", ".", "0", "5">>, <<"S", "/", " ">>,
     <<" ", "-", " ">>, <<"5">>}
Etiquetas == {Aplanar(ts) : ts \in SeqHasta(TrozosPrecio, MaxTrozos)}

InitPrecios ==
    /\ RunInactivo
    /\ LISTA_MINSA = {}
    /\ fase = "entrada"
    /\ texto_precio \in {Str(s) : s \in Etiquetas} \cup {None}
    /\ precios = <<0, 0>>
    /\ texto = None /\ variante = None
    /\ res1 = <<>> /\ res2 = <<>> /\ resv = <<>>
    /\ nombre_producto_web = <<>> /\ cumple = FALSE

AplicarPrecios ==
    /\ fase = "entrada"
    /\ precios' = analizar_precios(texto_precio)
    /\ fase' = "hecho"
    /\ UNCHANGED <<varsRun, LISTA_MINSA, texto, variante, res1, res2, resv,
                   nombre_producto_web, cumple, texto_precio>>

NextPrecios == AplicarPrecios

SpecPrecios == InitPrecios /\ [][NextPrecios]_vars


(***************************************************************************)
(* Claims about the text functions                                         *)
(***************************************************************************)
\* med stands in n as a run of whole words: it begins at the start of n or
\* after a space, and ends at the end of n or before a space
OcurreDelimitada(med, n) ==
    \E i \in 1..(Len(n) - Len(med) + 1) :
        /\ SubSeq(n, i, i + Len(med) - 1) = med
        /\ (i = 1 \/ n[i - 1] = " ")
        /\ (i + Len(med) - 1 = Len(n) \/ n[i + Len(med)] = " ")

PrimeraPalabra(med, n) ==
    /\ Len(n) > Len(med)
    /\ SubSeq(n, 1, Len(med)) = med
    /\ n[Len(med) + 1] = " "

PalabraInternaOFinal(med, n) ==
    \E i \in 2..(Len(n) - Len(med) + 1) :
        /\ n[i - 1] = " "
        /\ SubSeq(n, i, i + Len(med) - 1) = med
        /\ (i + Len(med) - 1 = Len(n) \/ n[i + Len(med)] = " ")

\* C8: for every candidate name and reference set, cumple_filtro_minsa is true
\* when the normalized candidate equals a reference entry, when an entry is the
\* candidate's first space-delimited word, and when an entry is a space-delimited
\* internal or final word; it is false when no entry stands in the candidate as
\* whole words (every entry is only a substring inside a longer word, as SAL in
\* ENSALADA, or does not occur at all).
C8_FiltroPalabraEntera ==
    fase = "hecho" =>
        LET n == normalizar(Str(nombre_producto_web))
        IN  /\ (\E med \in LISTA_MINSA : n = med) => cumple
            /\ (\E med \in LISTA_MINSA : PrimeraPalabra(med, n)) => cumple
            /\ (\E med \in LISTA_MINSA : PalabraInternaOFinal(med, n)) => cumple
            /\ (\A med \in LISTA_MINSA : ~OcurreDelimitada(med, n)) => ~cumple

C8_Witness ==
    /\ fase = "hecho"
    /\ nombre_producto_web = <<"E", "N", "s", "a^", "l", "A", "D", "A">>
    /\ LISTA_MINSA = {<<"S", "A", "L">>}
    /\ ~cumple

\* the characters normalizar can return for an argument over AlfabetoTexto
AlfabetoNormal == {"A", "S"}

\* C9: normalizar is idempotent and total: normalizar(normalizar(x)) =
\* normalizar(x); an argument that is not a str gives the empty string, never an
\* error; two texts that differ only in letter case or in accents normalize to
\* the same string (an upper-case string without marks).
C9_NormalizarIdempotente ==
    /\ fase \in {"una", "dos"} =>
          /\ \A k \in 1..Len(res1) : res1[k] \in AlfabetoNormal
          /\ texto.tipo # "str" => res1 = <<>>
          /\ resv = res1
    /\ fase = "dos" => res2 = res1

C9_Witness ==
    /\ fase = "dos"
    /\ texto = Str(<<"A^", "sz">>)
    /\ variante = Str(<<"a", "^", "sz">>)
    /\ res2 = <<"A", "S", "S">>

\* the numbers written in the label with exactly two fraction digits: the
\* maximal runs of digits and dots of the shape  digits . digit digit
EsNumerico(c) == c \in Digitos \cup {"."}
NumerosDosDecimales(s) ==
    {SubSeq(s, i, j) : <<i, j>> \in
        {p \in (1..Len(s)) \X (1..Len(s)) :
            /\ p[1] + 3 <= p[2]
            /\ \A k \in p[1]..p[2] : EsNumerico(s[k])
            /\ (p[1] = 1 \/ ~EsNumerico(s[p[1] - 1]))
            /\ (p[2] = Len(s) \/ ~EsNumerico(s[p[2] + 1]))
            /\ \A k \in p[1]..p[2] : (s[k] = ".") <=> (k = p[2] - 2)}}

\* C10: for every price label analizar_precios returns (0.0, 0.0) when the label
\* holds no number with exactly two fraction digits, and otherwise exactly the
\* minimum and the maximum of all such numbers of the label.
C10_PreciosMinMax ==
    fase = "hecho" =>
        LET nums == IF texto_precio.tipo = "str"
                    THEN NumerosDosDecimales(texto_precio.val) ELSE {}
            vals == {float(n) : n \in nums}
        IN  precios = IF nums = {} THEN <<0, 0>> ELSE <<Min(vals), Max(vals)>>


(***************************************************************************)
(* The run.  Program constants                                             *)
(***************************************************************************)
MAX_WORKERS == 5
MAX_PAGES == 100

(***************************************************************************)
(* Bounds of the site the run crawls                                       *)
(***************************************************************************)
MaxListados == 2   \* listing pages with product cards the site serves in a run
MaxCards == 2      \* product cards the site serves in a run

(***************************************************************************)
(* Python objects: a dict is a function from its keys                      *)
(***************************************************************************)
Dict(f) == [tipo |-> "dict", val |-> f]

\* d.update(e)
update(d, e) == [k \in DOMAIN d \cup DOMAIN e |-> IF k \in DOMAIN e THEN e[k] ELSE d[k]]

(***************************************************************************)
(* The site: the reference file, the home page, the listing pages, the     *)
(* product pages                                                           *)
(***************************************************************************)
ArchivoAusente == [existe |-> FALSE, lineas |-> <<>>]
Archivos ==
    {ArchivoAusente,
     [existe |-> TRUE, lineas |-> <<<<"S", "A", "L">>, <<>>>>],
     [existe |-> TRUE, lineas |-> <<<<" ", "s", "a^", "l", "^", " ">>, <<"A", "D">>>>]}

CatSalud == "/c/salud/"
CatBebe == "/c/cuidado-bebe/"
EnlaceOfertas == "/ofertas/"

\* '/c/' in link['href']
es_enlace_de_categoria(href) == href \in {CatSalud, CatBebe}

\* url_cat.strip('/').split('/')[-1].replace('-', ' ').title()
nombre_de_categoria(url_cat) ==
    CASE url_cat = CatSalud -> "Salud"
      [] url_cat = CatBebe -> "Cuidado Bebe"

SopaNone == [ok |-> FALSE]
Li(href) == [a |-> TRUE, href |-> href]
LiSinEnlace == [a |-> FALSE, href |-> ""]
Home(menu, items) == [ok |-> TRUE, menu |-> menu, items |-> items]
Homes ==
    {SopaNone,
     Home(FALSE, <<>>),
     Home(TRUE, <<LiSinEnlace, Li(EnlaceOfertas)>>),
     Home(TRUE, <<Li(CatSalud)>>),
     Home(TRUE, <<Li(CatSalud), Li(EnlaceOfertas), Li(CatBebe)>>),
     Home(TRUE, <<Li(CatSalud), LiSinEnlace, Li(CatSalud)>>)}

\* the catalogue: the name and the price label a product URL is listed with
ProdSal ==
    [url |-> "/p/sal-de-fruta/", nombre |-> <<"s", "a^", "l", " ", "D", "E">>,
     tag_p |-> TRUE, precio |-> <<"S", "/", " ", "1", "2", ".", "5", "0">>]
ProdEnsalada ==
    [url |-> "/p/ensalada/", nombre |-> <<"E", "N", "S", "A", "L", "A", "D", "A">>,
     tag_p |-> FALSE, precio |-> <<>>]
Productos == {ProdSal, ProdEnsalada}

\* a div.wd-product: with its title link, without it, or with a link without href
Card(p) == [tag_a |-> TRUE, href |-> TRUE, prod |-> p]
CardSinTitulo == [tag_a |-> FALSE, href |-> FALSE, prod |-> ProdEnsalada]
CardSinHref == [tag_a |-> TRUE, href |-> FALSE, prod |-> ProdSal]
Cards == {Card(p) : p \in Productos} \cup {CardSinTitulo, CardSinHref}

Listado(cards, next) == [ok |-> TRUE, cards |-> cards, next |-> next]
ListadoNone == [ok |-> FALSE, cards |-> <<>>, next |-> FALSE]

\* what a GET of a listing page can answer while the site has m left to serve:
\* no page, one of its m.listados pages with some of its m.cards product cards,
\* or one of its m.relleno pages whose only product card has no title link
ListadosPosibles(m) ==
    {ListadoNone} \cup
    {Listado(cs, n) :
        cs \in SeqHasta(Cards, IF m.listados > 0 THEN m.cards ELSE 0),
        n \in BOOLEAN} \cup
    {Listado(<<CardSinTitulo>>, n) : n \in IF m.relleno > 0 THEN BOOLEAN ELSE {}}

\* what the site has left after it has served the listing page r
servido(m, r) ==
    IF m.listados > 0 /\ Len(r.cards) <= m.cards
    THEN [m EXCEPT !.listados = @ - 1, !.cards = @ - Len(r.cards)]
    ELSE [m EXCEPT !.relleno = @ - 1]

\* a product page: its accordion blocks and the rows of its attributes table.
\* A title or a label is given by the keywords its lower-cased text contains.
Bloque(t, c, titulo, contenido) ==
    [t_tag |-> t, c_tag |-> c, titulo |-> titulo, contenido |-> contenido]
Fila(th, td, label, valor) == [th |-> th, td |-> td, label |-> label, valor |-> valor]
Detalle(acordeon, tabla) ==
    [pedida |-> TRUE, ok |-> TRUE, acordeon |-> acordeon, tabla |-> tabla]
DetalleNone == [pedida |-> TRUE, ok |-> FALSE, acordeon |-> <<>>, tabla |-> <<>>]
SinPedir == [pedida |-> FALSE, ok |-> FALSE, acordeon |-> <<>>, tabla |-> <<>>]

DocVacio == Detalle(<<>>, <<>>)
DocAcordeon == Detalle(<<Bloque(TRUE, TRUE, {"composici"}, "Paracetamol 500 mg")>>, <<>>)
DocTabla == Detalle(<<>>, <<Fila(TRUE, TRUE, {"registro", "sanitario"}, "EE-01234")>>)
DocAmbos ==
    Detalle(<<Bloque(TRUE, TRUE, {"advertencia"}, "No especificado"),
              Bloque(TRUE, FALSE, {"descripci"}, "")>>,
            <<Fila(TRUE, TRUE, {"composici"}, "Sodio")>>)
Detalles == {DocVacio, DocAcordeon, DocTabla, DocAmbos}

(***************************************************************************)
(* 2. Navigation                                                           *)
(***************************************************************************)
Peticion(tipo, url, n) == [tipo |-> tipo, url |-> url, page |-> n]
URL_HOME == "https://www.hogarysalud.com.pe"

\* descubrir_categorias_menu, on the soup obtener_sopa(URL_HOME) returned
descubrir_categorias_menu(sopa) ==
    IF ~sopa.ok THEN <<>>
    ELSE IF ~sopa.menu THEN <<>>
    ELSE LET validos == SelectSeq(sopa.items,
                            LAMBDA item : item.a /\ es_enlace_de_categoria(item.href))
         IN  [k \in 1..Len(validos) |-> validos[k].href]

(***************************************************************************)
(* 3. The worker                                                           *)
(***************************************************************************)
NoEspecificado == "No especificado"
CamposDetalle ==
    {"Registro Sanitario", "Composicion", "Descripcion", "Advertencias", "Contraindicaciones"}

\* (the defaults with one key forgotten)
InfoMutSinAdvertencias == [k \in CamposDetalle \ {"Advertencias"} |-> NoEspecificado]

\* the default dict of lines 231-237
info_por_defecto == [k \in CamposDetalle |-> NoEspecificado]

\* one turn of the loop over the accordion blocks, lines 243-258
paso_acordeon(info, item) ==
    IF item.t_tag /\ item.c_tag
    THEN IF "descripci" \in item.titulo
         THEN update(info, "Descripcion" :> item.contenido)
         ELSE IF "advertencia" \in item.titulo
         THEN update(info, "Advertencias" :> item.contenido)
         ELSE IF "contraindicaci" \in item.titulo
         THEN update(info, "Contraindicaciones" :> item.contenido)
         ELSE IF "composici" \in item.titulo
         THEN update(info, "Composicion" :> item.contenido)
         ELSE info
    ELSE info

\* one turn of the loop over the rows of the table, lines 263-273
paso_tabla(info, row) ==
    IF row.th /\ row.td
    THEN IF "registro" \in row.label
         THEN update(info, "Registro Sanitario" :> row.valor)
         ELSE IF "composici" \in row.label /\ info["Composicion"] = NoEspecificado
         THEN update(info, "Composicion" :> row.valor)
         ELSE info
    ELSE info

RECURSIVE Plegar(_, _, _)
Plegar(info, bloques, esTabla) ==
    IF bloques = <<>> THEN info
    ELSE Plegar(IF esTabla THEN paso_tabla(info, Head(bloques))
                ELSE paso_acordeon(info, Head(bloques)),
                Tail(bloques), esTabla)

\* info_adicional once the worker has read the soup of the product page
info_adicional(sopa) ==
    IF sopa.ok
    THEN Plegar(Plegar(info_por_defecto, sopa.acordeon, FALSE), sopa.tabla, TRUE)
    ELSE info_por_defecto

\* (a worker that filters nothing)
PasaFiltroMutSiempre(datos_base) == TRUE

\* the test of line 221
pasa_filtro(datos_base) == cumple_filtro_minsa(datos_base["Nombre"])

(***************************************************************************)
(* 4. The category manager: phase A, the candidates of a page              *)
(***************************************************************************)
datos_iniciales(prod, nombre_cat) ==
    LET txt_p == IF prod.tag_p THEN prod.precio ELSE <<>>
        p == analizar_precios(Str(txt_p))
    IN  ("Categoria" :> nombre_cat) @@ ("Nombre" :> prod.nombre) @@
        ("Precio Minimo (S/)" :> p[1]) @@ ("Precio Maximo (S/)" :> p[2]) @@
        ("URL" :> prod.url)

\* the index of the first card whose title link has no href (tag_a['href']
\* raises KeyError there); 0 when every title link has one
PrimerSinHref(cards) ==
    LET malos == {i \in 1..Len(cards) : cards[i].tag_a /\ ~cards[i].href}
    IN  IF malos = {} THEN 0 ELSE Min(malos)

\* tareas_para_workers after the loop of lines 325-341 over cards
tareas_de(cards, nombre_cat) ==
    LET con_titulo == SelectSeq(cards, LAMBDA c : c.tag_a)
    IN  [k \in 1..Len(con_titulo) |-> datos_iniciales(con_titulo[k].prod, nombre_cat)]


(***************************************************************************)
(* 5. The main block and the threads                                       *)
(***************************************************************************)
Init ==
    /\ pc = "inicio"
    /\ archivo \in Archivos
    /\ LISTA_MINSA = {}
    /\ cats = <<>>
    /\ icat = 0
    /\ page = 0
    /\ soup = ListadoNone
    /\ tareas_para_workers = <<>>
    /\ wpc = <<>>
    /\ sopas = <<>>
    /\ resultados = <<>>
    /\ DATOS_RECOPILADOS = <<>>
    /\ excel = [escrito |-> FALSE, filas |-> <<>>]
    /\ mundo = [listados |-> MaxListados, cards |-> MaxCards, relleno |-> 0]
    /\ peticiones = EmptyBag
    /\ traza = <<>>
    /\ cat_hist = <<>>
    /\ TextoInactivo

Pedir(req) == peticiones' = peticiones (+) SetToBag({req})

varsPool == <<tareas_para_workers, wpc, sopas, resultados, traza>>

\* cargar_filtro_txt(): FileNotFoundError is caught and leaves the set empty
CargarFiltro ==
    /\ pc = "inicio"
    /\ LISTA_MINSA' = IF archivo.existe
                      THEN LISTA_MINSA \cup LineasAFiltro(archivo.lineas)
                      ELSE LISTA_MINSA
    /\ pc' = "cargado"
    /\ UNCHANGED <<archivo, cats, icat, page, soup, varsPool, DATOS_RECOPILADOS,
                   excel, mundo, peticiones, cat_hist, varsTexto>>

\* line 375, the else of line 405
MainSinLista ==
    /\ pc = "cargado"
    /\ LISTA_MINSA = {}
    /\ pc' = "fin"
    /\ UNCHANGED <<archivo, LISTA_MINSA, cats, icat, page, soup, varsPool,
                   DATOS_RECOPILADOS, excel, mundo, peticiones, cat_hist, varsTexto>>

\* the body of  if LISTA_MINSA:  up to the for loop: one GET of the home page
DescubrirCuerpo ==
    /\ pc = "cargado"
    /\ \E sopa \in Homes :
          /\ cats' = descubrir_categorias_menu(sopa)
          /\ pc' = IF cats' = <<>> THEN "fin" ELSE "categorias"
    /\ icat' = 1
    /\ Pedir(Peticion("home", URL_HOME, 0))
    /\ UNCHANGED <<archivo, LISTA_MINSA, page, soup, varsPool, DATOS_RECOPILADOS,
                   excel, mundo, cat_hist, varsTexto>>

\* (the main block without  if LISTA_MINSA:)
DescubrirMutSinGuarda == DescubrirCuerpo

Descubrir == LISTA_MINSA # {} /\ DescubrirCuerpo

\* for cat in cats: procesar_categoria(cat), lines 297-302
IniciarCategoria ==
    /\ pc = "categorias"
    /\ icat <= Len(cats)
    /\ page' = 1
    /\ pc' = "pagina"
    /\ cat_hist' = <<>>
    /\ UNCHANGED <<archivo, LISTA_MINSA, cats, icat, soup, varsPool,
                   DATOS_RECOPILADOS, excel, mundo, peticiones, varsTexto>>

\* lines 388-402, after the last category
Guardar ==
    /\ pc = "categorias"
    /\ icat > Len(cats)
    /\ excel' = IF DATOS_RECOPILADOS # <<>>
                THEN [escrito |-> TRUE, filas |-> DATOS_RECOPILADOS]
                ELSE excel
    /\ pc' = "fin"
    /\ UNCHANGED <<archivo, LISTA_MINSA, cats, icat, page, soup, varsPool,
                   DATOS_RECOPILADOS, mundo, peticiones, cat_hist, varsTexto>>

\* procesar_categoria returns: its locals are gone, main takes the next category
FinCategoria ==
    /\ pc' = "categorias"
    /\ icat' = icat + 1
    /\ page' = 0
    /\ soup' = ListadoNone
    /\ tareas_para_workers' = <<>>
    /\ wpc' = <<>>
    /\ sopas' = <<>>
    /\ resultados' = <<>>
    /\ traza' = <<>>

EntradaHist(estado) ==
    [page |-> page, estado |-> estado, antes |-> Len(DATOS_RECOPILADOS),
     siguiente |-> FALSE, recolectada |-> FALSE, tareas |-> <<>>,
     resultados |-> <<>>, trazas |-> <<>>]

url_actual == cats[icat]

\* (a variant of ObtenerPagina in which a page without cards does not end the
\* category)
ObtenerPaginaMutSinBreak ==
    /\ pc = "pagina"
    /\ Pedir(Peticion("listado", url_actual, page))
    /\ \E r \in ListadosPosibles(mundo) :
          IF ~r.ok
          THEN /\ FinCategoria
               /\ cat_hist' = Append(cat_hist, EntradaHist("fallo"))
               /\ UNCHANGED mundo
          ELSE IF r.cards = <<>>
          THEN /\ page' = page + 1
               /\ cat_hist' = Append(cat_hist, EntradaHist("vacia"))
               /\ UNCHANGED <<pc, icat, soup, mundo, varsPool>>
          ELSE /\ soup' = r
               /\ pc' = "extraer"
               /\ mundo' = servido(mundo, r)
               /\ cat_hist' = Append(cat_hist,
                                     [EntradaHist("cards") EXCEPT !.siguiente = r.next])
               /\ UNCHANGED <<icat, page, varsPool>>
    /\ UNCHANGED <<archivo, LISTA_MINSA, cats, DATOS_RECOPILADOS, excel, varsTexto>>

\* (a variant of ObtenerPagina in which a failed fetch ends the run)
ObtenerPaginaMutFalloFatal ==
    /\ pc = "pagina"
    /\ Pedir(Peticion("listado", url_actual, page))
    /\ \E r \in ListadosPosibles(mundo) :
          IF ~r.ok
          THEN /\ pc' = "fin"
               /\ cat_hist' = Append(cat_hist, EntradaHist("fallo"))
               /\ UNCHANGED <<icat, page, soup, mundo, varsPool>>
          ELSE IF r.cards = <<>>
          THEN /\ FinCategoria
               /\ cat_hist' = Append(cat_hist, EntradaHist("vacia"))
               /\ UNCHANGED mundo
          ELSE /\ soup' = r
               /\ pc' = "extraer"
               /\ mundo' = servido(mundo, r)
               /\ cat_hist' = Append(cat_hist,
                                     [EntradaHist("cards") EXCEPT !.siguiente = r.next])
               /\ UNCHANGED <<icat, page, varsPool>>
    /\ UNCHANGED <<archivo, LISTA_MINSA, cats, DATOS_RECOPILADOS, excel, varsTexto>>

\* lines 304-317: the GET of page `page`, and the two breaks
ObtenerPagina ==
    /\ pc = "pagina"
    /\ Pedir(Peticion("listado", url_actual, page))
    /\ \E r \in ListadosPosibles(mundo) :
          IF ~r.ok
          THEN /\ FinCategoria
               /\ cat_hist' = Append(cat_hist, EntradaHist("fallo"))
               /\ UNCHANGED mundo
          ELSE IF r.cards = <<>>
          THEN /\ FinCategoria
               /\ cat_hist' = Append(cat_hist, EntradaHist("vacia"))
               /\ UNCHANGED mundo
          ELSE /\ soup' = r
               /\ pc' = "extraer"
               /\ mundo' = servido(mundo, r)
               /\ cat_hist' = Append(cat_hist,
                                     [EntradaHist("cards") EXCEPT !.siguiente = r.next])
               /\ UNCHANGED <<icat, page, varsPool>>
    /\ UNCHANGED <<archivo, LISTA_MINSA, cats, DATOS_RECOPILADOS, excel, varsTexto>>

\* lines 323-349: phase A, then the pool is created and every task submitted.
\* A title link without href raises KeyError, which nothing catches.
Extraer ==
    /\ pc = "extraer"
    /\ LET malo == PrimerSinHref(soup.cards)
           nombre_cat == nombre_de_categoria(url_actual)
       IN  IF malo > 0
           THEN /\ pc' = "roto"
                /\ tareas_para_workers' =
                       tareas_de(SubSeq(soup.cards, 1, malo - 1), nombre_cat)
                /\ wpc' = <<>>
                /\ sopas' = <<>>
                /\ resultados' = <<>>
                /\ traza' = <<>>
                /\ UNCHANGED cat_hist
           ELSE LET tareas == tareas_de(soup.cards, nombre_cat)
                IN  /\ pc' = "workers"
                    /\ tareas_para_workers' = tareas
                    /\ wpc' = [i \in 1..Len(tareas) |-> "cola"]
                    /\ sopas' = [i \in 1..Len(tareas) |-> SinPedir]
                    /\ resultados' = [i \in 1..Len(tareas) |-> None]
                    /\ traza' = [i \in 1..Len(tareas) |-> <<>>]
                    /\ cat_hist' = [cat_hist EXCEPT ![Len(cat_hist)].tareas =
                           [i \in 1..Len(tareas) |->
                               [Nombre |-> tareas[i]["Nombre"], URL |-> tareas[i]["URL"]]]]
    /\ UNCHANGED <<archivo, LISTA_MINSA, cats, icat, page, soup, DATOS_RECOPILADOS,
                   excel, mundo, peticiones, varsTexto>>

UNCHANGED_Worker ==
    UNCHANGED <<pc, archivo, LISTA_MINSA, cats, icat, page, soup, DATOS_RECOPILADOS,
                excel, mundo, cat_hist, varsTexto>>

EnMarcha == {"filtro", "sleep", "fetch", "detalle"}

\* where the try block can raise: before the filter has answered, and while the
\* soup is read (time.sleep raises nothing, obtener_sopa catches what it raises,
\* and without a soup lines 230-278 only build and merge two dicts)
PuedeFallar == {"filtro", "detalle"}

\* (a pool that starts a thread for every task)
WorkerStartMutSinLimite(i) ==
    /\ pc = "workers"
    /\ wpc[i] = "cola"
    /\ \A j \in 1..(i - 1) : wpc[j] # "cola"
    /\ wpc' = [wpc EXCEPT ![i] = "filtro"]
    /\ UNCHANGED <<tareas_para_workers, sopas, resultados, traza, peticiones>>
    /\ UNCHANGED_Worker

\* a thread of the pool takes the next task of the queue
WorkerStart(i) ==
    /\ pc = "workers"
    /\ wpc[i] = "cola"
    /\ \A j \in 1..(i - 1) : wpc[j] # "cola"
    /\ Cardinality({j \in DOMAIN wpc : wpc[j] \in EnMarcha}) < MAX_WORKERS
    /\ wpc' = [wpc EXCEPT ![i] = "filtro"]
    /\ UNCHANGED <<tareas_para_workers, sopas, resultados, traza, peticiones>>
    /\ UNCHANGED_Worker

\* (a worker that goes on to the sleep and the fetch whatever the filter says)
WorkerFiltroMutSinDescarte(i) ==
    /\ pc = "workers"
    /\ wpc[i] = "filtro"
    /\ traza' = [traza EXCEPT ![i] = Append(@, "filtro")]
    /\ wpc' = [wpc EXCEPT ![i] = "sleep"]
    /\ UNCHANGED <<tareas_para_workers, sopas, resultados, peticiones>>
    /\ UNCHANGED_Worker

\* lines 215-222: step 1, the filter
WorkerFiltro(i) ==
    /\ pc = "workers"
    /\ wpc[i] = "filtro"
    /\ traza' = [traza EXCEPT ![i] = Append(@, "filtro")]
    /\ IF pasa_filtro(tareas_para_workers[i])
       THEN /\ wpc' = [wpc EXCEPT ![i] = "sleep"]
            /\ UNCHANGED resultados
       ELSE /\ wpc' = [wpc EXCEPT ![i] = "hecho"]
            /\ resultados' = [resultados EXCEPT ![i] = None]
    /\ UNCHANGED <<tareas_para_workers, sopas, peticiones>>
    /\ UNCHANGED_Worker

\* line 226: the pacing sleep
WorkerSleep(i) ==
    /\ pc = "workers"
    /\ wpc[i] = "sleep"
    /\ traza' = [traza EXCEPT ![i] = Append(@, "sleep")]
    /\ wpc' = [wpc EXCEPT ![i] = "fetch"]
    /\ UNCHANGED <<tareas_para_workers, sopas, resultados, peticiones>>
    /\ UNCHANGED_Worker

\* line 228: obtener_sopa(link), one GET, a soup or None
WorkerFetch(i) ==
    /\ pc = "workers"
    /\ wpc[i] = "fetch"
    /\ traza' = [traza EXCEPT ![i] = Append(@, "fetch")]
    /\ Pedir(Peticion("detalle", tareas_para_workers[i]["URL"], 0))
    /\ \E sopa \in Detalles \cup {DetalleNone} : sopas' = [sopas EXCEPT ![i] = sopa]
    /\ wpc' = [wpc EXCEPT ![i] = "detalle"]
    /\ UNCHANGED <<tareas_para_workers, resultados>>
    /\ UNCHANGED_Worker

\* (a worker that appends its record to the result collection itself)
WorkerDetalleMutAnota(i) ==
    /\ pc = "workers"
    /\ wpc[i] = "detalle"
    /\ traza' = [traza EXCEPT ![i] = Append(@, "detalle")]
    /\ LET datos_base == update(tareas_para_workers[i], info_adicional(sopas[i]))
       IN  /\ tareas_para_workers' = [tareas_para_workers EXCEPT ![i] = datos_base]
           /\ resultados' = [resultados EXCEPT ![i] = Dict(datos_base)]
           /\ DATOS_RECOPILADOS' = Append(DATOS_RECOPILADOS, datos_base)
    /\ wpc' = [wpc EXCEPT ![i] = "hecho"]
    /\ UNCHANGED <<sopas, peticiones>>
    /\ UNCHANGED <<pc, archivo, LISTA_MINSA, cats, icat, page, soup, excel, mundo,
                   cat_hist, varsTexto>>

\* (a worker that gives up the candidate when the product page could not be fetched)
WorkerDetalleMutNoneSinSopa(i) ==
    /\ pc = "workers"
    /\ wpc[i] = "detalle"
    /\ traza' = [traza EXCEPT ![i] = Append(@, "detalle")]
    /\ LET datos_base == update(tareas_para_workers[i], info_adicional(sopas[i]))
       IN  IF sopas[i].ok
           THEN /\ tareas_para_workers' = [tareas_para_workers EXCEPT ![i] = datos_base]
                /\ resultados' = [resultados EXCEPT ![i] = Dict(datos_base)]
           ELSE /\ resultados' = [resultados EXCEPT ![i] = None]
                /\ UNCHANGED tareas_para_workers
    /\ wpc' = [wpc EXCEPT ![i] = "hecho"]
    /\ UNCHANGED <<sopas, peticiones>>
    /\ UNCHANGED_Worker

\* lines 230-278: the detail fields, merged into the candidate, which is returned
WorkerDetalle(i) ==
    /\ pc = "workers"
    /\ wpc[i] = "detalle"
    /\ traza' = [traza EXCEPT ![i] = Append(@, "detalle")]
    /\ LET datos_base == update(tareas_para_workers[i], info_adicional(sopas[i]))
       IN  /\ tareas_para_workers' = [tareas_para_workers EXCEPT ![i] = datos_base]
           /\ resultados' = [resultados EXCEPT ![i] = Dict(datos_base)]
    /\ wpc' = [wpc EXCEPT ![i] = "hecho"]
    /\ UNCHANGED <<sopas, peticiones>>
    /\ UNCHANGED_Worker

\* (a worker without the except: the exception reaches the driver)
WorkerExcepcionMutPropaga(i) ==
    /\ pc = "workers"
    /\ wpc[i] \in PuedeFallar
    /\ wpc[i] = "detalle" => sopas[i].ok
    /\ traza' = [traza EXCEPT ![i] = Append(@, "excepcion")]
    /\ wpc' = [wpc EXCEPT ![i] = "hecho"]
    /\ pc' = "roto"
    /\ UNCHANGED <<tareas_para_workers, sopas, resultados, peticiones>>
    /\ UNCHANGED <<archivo, LISTA_MINSA, cats, icat, page, soup, DATOS_RECOPILADOS,
                   excel, mundo, cat_hist, varsTexto>>

\* lines 280-282: an exception raised anywhere in the try gives None
WorkerExcepcion(i) ==
    /\ pc = "workers"
    /\ wpc[i] \in PuedeFallar
    /\ wpc[i] = "detalle" => sopas[i].ok
    /\ traza' = [traza EXCEPT ![i] = Append(@, "excepcion")]
    /\ wpc' = [wpc EXCEPT ![i] = "hecho"]
    /\ resultados' = [resultados EXCEPT ![i] = None]
    /\ UNCHANGED <<tareas_para_workers, sopas, peticiones>>
    /\ UNCHANGED_Worker

\* (a collection that takes the results last to first)
RecolectadosMutAlReves(res) ==
    LET buenos == SelectSeq(res, LAMBDA r : r.tipo = "dict")
    IN  [k \in 1..Len(buenos) |-> buenos[Len(buenos) + 1 - k].val]

\* for res in resultados: if res: DATOS_RECOPILADOS.append(res)
recolectados(res) ==
    LET buenos == SelectSeq(res, LAMBDA r : r.tipo = "dict")
    IN  [k \in 1..Len(buenos) |-> buenos[k].val]

\* (a driver that does not wait for the workers of the page)
RecolectarMutSinEsperar ==
    /\ pc = "workers"
    /\ DATOS_RECOPILADOS' = DATOS_RECOPILADOS \o recolectados(resultados)
    /\ cat_hist' = [cat_hist EXCEPT ![Len(cat_hist)] =
                       [@ EXCEPT !.recolectada = TRUE,
                                 !.resultados = resultados,
                                 !.trazas = traza]]
    /\ IF soup.next /\ page + 1 <= MAX_PAGES
       THEN /\ page' = page + 1
            /\ pc' = "pagina"
            /\ UNCHANGED <<icat, soup, varsPool>>
       ELSE FinCategoria
    /\ UNCHANGED <<archivo, LISTA_MINSA, cats, excel, mundo, peticiones, varsTexto>>

\* (a paginator without the safety ceiling of line 304)
RecolectarMutSinTope ==
    /\ pc = "workers"
    /\ \A i \in DOMAIN wpc : wpc[i] = "hecho"
    /\ DATOS_RECOPILADOS' = DATOS_RECOPILADOS \o recolectados(resultados)
    /\ cat_hist' = [cat_hist EXCEPT ![Len(cat_hist)] =
                       [@ EXCEPT !.recolectada = TRUE,
                                 !.resultados = resultados,
                                 !.trazas = traza]]
    /\ IF soup.next
       THEN /\ page' = page + 1
            /\ pc' = "pagina"
            /\ UNCHANGED <<icat, soup, varsPool>>
       ELSE FinCategoria
    /\ UNCHANGED <<archivo, LISTA_MINSA, cats, excel, mundo, peticiones, varsTexto>>

\* lines 349-364: every worker has returned; phase C, then the next page or the end
Recolectar ==
    /\ pc = "workers"
    /\ \A i \in DOMAIN wpc : wpc[i] = "hecho"
    /\ DATOS_RECOPILADOS' = DATOS_RECOPILADOS \o recolectados(resultados)
    /\ cat_hist' = [cat_hist EXCEPT ![Len(cat_hist)] =
                       [@ EXCEPT !.recolectada = TRUE,
                                 !.resultados = resultados,
                                 !.trazas = traza]]
    /\ IF soup.next /\ page + 1 <= MAX_PAGES
       THEN /\ page' = page + 1
            /\ pc' = "pagina"
            /\ UNCHANGED <<icat, soup, varsPool>>
       ELSE FinCategoria
    /\ UNCHANGED <<archivo, LISTA_MINSA, cats, excel, mundo, peticiones, varsTexto>>

Next ==
    \/ CargarFiltro
    \/ MainSinLista
    \/ Descubrir
    \/ IniciarCategoria
    \/ Guardar
    \/ ObtenerPagina
    \/ Extraer
    \/ \E i \in DOMAIN wpc : WorkerStart(i)
    \/ \E i \in DOMAIN wpc : WorkerFiltro(i)
    \/ \E i \in DOMAIN wpc : WorkerSleep(i)
    \/ \E i \in DOMAIN wpc : WorkerFetch(i)
    \/ \E i \in DOMAIN wpc : WorkerDetalle(i)
    \/ \E i \in DOMAIN wpc : WorkerExcepcion(i)
    \/ Recolectar

Spec == Init /\ [][Next]_vars


(***************************************************************************)
(* Claims about the run                                                    *)
(***************************************************************************)
RECURSIVE Ordenar(_)
Ordenar(S) == IF S = {} THEN <<>> ELSE <<Min(S)>> \o Ordenar(S \ {Min(S)})

Fallo(t) == \E k \in 1..Len(t) : t[k] = "excepcion"

\* C1: after a complete run the rows handed to the export hold at most one
\* record per product URL (when two listings link to the same product URL a
\* single record of it is exported).
C1_UnRegistroPorURL ==
    (pc = "fin" /\ excel.escrito) =>
        \A j, k \in 1..Len(excel.filas) :
            j # k => excel.filas[j]["URL"] # excel.filas[k]["URL"]

\* C2: a worker invocation on a candidate whose name does not match the reference
\* set returns None without any fetch: in every execution the filter check comes
\* before the pacing sleep and before the detail fetch, and no detail request is
\* ever issued for a candidate that does not match.
C2_FiltroAntesDeFetch ==
    /\ \A i \in DOMAIN traza :
          /\ \A k \in 1..Len(traza[i]) :
                traza[i][k] \in {"sleep", "fetch", "detalle"} =>
                    \E j \in 1..(k - 1) : traza[i][j] = "filtro"
          /\ ~cumple_filtro_minsa(tareas_para_workers[i]["Nombre"]) =>
                /\ \A k \in 1..Len(traza[i]) : traza[i][k] \in {"filtro", "excepcion"}
                /\ ~sopas[i].pedida
                /\ wpc[i] = "hecho" => resultados[i].tipo = "NoneType"
    /\ \A req \in BagToSet(peticiones) :
          req.tipo = "detalle" =>
              \E p \in Productos : p.url = req.url /\ cumple_filtro_minsa(p.nombre)

C2_Witness ==
    \E i, j \in DOMAIN traza :
        /\ ~cumple_filtro_minsa(tareas_para_workers[i]["Nombre"])
        /\ wpc[i] = "hecho"
        /\ traza[i] = <<"filtro">>
        /\ resultados[i].tipo = "NoneType"
        /\ sopas[j].pedida

\* C3: in every reachable state every record of DATOS_RECOPILADOS has a name
\* that matches the loaded reference set.
C3_SoloNombresFiltrados ==
    \A k \in 1..Len(DATOS_RECOPILADOS) :
        cumple_filtro_minsa(DATOS_RECOPILADOS[k]["Nombre"])

C3_Witness ==
    /\ Len(DATOS_RECOPILADOS) >= 1
    /\ \E i \in DOMAIN wpc :
          /\ wpc[i] = "hecho"
          /\ ~cumple_filtro_minsa(tareas_para_workers[i]["Nombre"])

\* the texts a product page holds
TextosDe(sopa) ==
    {sopa.acordeon[k].contenido : k \in 1..Len(sopa.acordeon)} \cup
    {sopa.tabla[k].valor : k \in 1..Len(sopa.tabla)}

\* C4: every record a worker returns and every record of the result collection
\* has the five detail fields, each holding a text of the product page or the
\* sentinel, whatever sections the page has; a page with neither accordion
\* blocks nor attribute rows gives the sentinel in all five.
C4_CincoCampos ==
    /\ \A i \in DOMAIN resultados :
          resultados[i].tipo = "dict" =>
              LET d == resultados[i].val
              IN  /\ CamposDetalle \subseteq DOMAIN d
                  /\ \A c \in CamposDetalle :
                        d[c] = NoEspecificado \/ d[c] \in TextosDe(sopas[i])
                  /\ (sopas[i].ok /\ sopas[i].acordeon = <<>> /\ sopas[i].tabla = <<>>)
                        => \A c \in CamposDetalle : d[c] = NoEspecificado
    /\ \A k \in 1..Len(DATOS_RECOPILADOS) :
          /\ CamposDetalle \subseteq DOMAIN DATOS_RECOPILADOS[k]
          /\ \A c \in CamposDetalle :
                \/ DATOS_RECOPILADOS[k][c] = NoEspecificado
                \/ \E sopa \in Detalles : DATOS_RECOPILADOS[k][c] \in TextosDe(sopa)

C4_Witness ==
    /\ pc = "pagina"
    /\ Len(DATOS_RECOPILADOS) = 2
    /\ sopas = <<DocVacio, DocAmbos>>
    /\ resultados[1].tipo = "dict"
    /\ resultados[1].val["Composicion"] = NoEspecificado
    /\ resultados[2].val["Composicion"] = "Sodio"

\* C5: if the reference file is missing, or no line of it is kept, the run halts
\* before any network activity: no request is ever issued and no output file is
\* written.
C5_SinListaSinRed ==
    (\/ ~archivo.existe
     \/ \A j \in 1..Len(archivo.lineas) : Len(strip(archivo.lineas[j])) <= 3)
    => /\ BagToSet(peticiones) = {}
       /\ ~excel.escrito
       /\ pc \in {"inicio", "cargado", "fin"}

C5_Witness ==
    /\ pc = "fin"
    /\ archivo.existe
    /\ LISTA_MINSA = {}

\* C6: an exception raised while a worker processes one candidate is turned
\* into a None result and never reaches the driver; the other candidates of the
\* page are processed to the end and their records are collected.
C6_ExcepcionAislada ==
    /\ \A i \in DOMAIN traza :
          Fallo(traza[i]) =>
              /\ pc # "roto"
              /\ wpc[i] = "hecho"
              /\ resultados[i].tipo = "NoneType"
    /\ \A k \in 1..Len(cat_hist) :
          cat_hist[k].recolectada =>
              LET e == cat_hist[k]
                  hasta == IF k < Len(cat_hist) THEN cat_hist[k + 1].antes
                           ELSE Len(DATOS_RECOPILADOS)
                  buenos == Ordenar({i \in 1..Len(e.resultados) :
                                        e.resultados[i].tipo = "dict"})
              IN  /\ \A i \in 1..Len(e.trazas) :
                        \/ Fallo(e.trazas[i])
                        \/ e.trazas[i] = <<"filtro">>
                        \/ /\ e.trazas[i] = <<"filtro", "sleep", "fetch", "detalle">>
                           /\ e.resultados[i].tipo = "dict"
                  /\ hasta - e.antes = Len(buenos)
                  /\ \A n \in 1..Len(buenos) :
                        DATOS_RECOPILADOS[e.antes + n] = e.resultados[buenos[n]].val

C6_Witness ==
    \E k \in 1..Len(cat_hist) :
        /\ cat_hist[k].recolectada
        /\ \E i, j \in 1..Len(cat_hist[k].trazas) :
              /\ Fallo(cat_hist[k].trazas[i])
              /\ cat_hist[k].resultados[j].tipo = "dict"
              /\ DATOS_RECOPILADOS[Len(DATOS_RECOPILADOS)]
                     = cat_hist[k].resultados[j].val

\* a category that ended after two pages, the second one without product cards
DosPaginas ==
    /\ pc = "categorias"
    /\ Len(cat_hist) = 2
    /\ cat_hist[1].estado = "cards"
    /\ cat_hist[2].estado = "vacia"

\* the records the category of cat_hist has appended are those of the
\* candidates idx of its first page, in that order
RegistrosDePagina1(idx) ==
    LET e == cat_hist[1]
        n == Len(DATOS_RECOPILADOS) - e.antes
    IN  /\ n = Len(idx)
        /\ \A k \in 1..Len(idx) :
              /\ DATOS_RECOPILADOS[e.antes + k]["Nombre"] = e.tareas[idx[k]].Nombre
              /\ DATOS_RECOPILADOS[e.antes + k]["URL"] = e.tareas[idx[k]].URL

\* once a listing page is fetched that has no product cards (or the fetch
\* fails), no further page of the category is requested and nothing is appended
PaginaVaciaEsLaUltima ==
    /\ \A k \in 1..Len(cat_hist) :
          /\ cat_hist[k].page = k
          /\ k < Len(cat_hist) => cat_hist[k].estado = "cards" /\ cat_hist[k].recolectada
    /\ (cat_hist # <<>> /\ cat_hist[Len(cat_hist)].estado # "cards") =>
          /\ pc \in {"categorias", "pagina", "fin"}
          /\ pc = "pagina" => page = 1
          /\ Len(DATOS_RECOPILADOS) = cat_hist[Len(cat_hist)].antes

tareas_sin_fallos(cards, nombre_cat) ==
    LET buenas == SelectSeq(cards, LAMBDA c : c.tag_a /\ c.href)
    IN  [k \in 1..Len(buenas) |-> datos_iniciales(buenas[k].prod, nombre_cat)]

\* C11: across a whole run no product detail URL is handed to the worker pool
\* more than once (a card whose URL was already admitted is skipped), so no
\* detail page is requested twice in one run.
C11_SinURLRepetida ==
    /\ \A i, j \in DOMAIN tareas_para_workers :
          i # j => tareas_para_workers[i]["URL"] # tareas_para_workers[j]["URL"]
    /\ \A req \in BagToSet(peticiones) :
          req.tipo = "detalle" => CopiesIn(req, peticiones) <= 1

\* C12: a structure failure on one product card (no title link, or a title link
\* without href) is local: that card is skipped, the other cards of the page
\* become candidates, and the category and the run go on.
C12_FalloDeCardLocal ==
    /\ pc # "roto"
    /\ (pc = "workers" /\ \A i \in DOMAIN wpc : wpc[i] = "cola") =>
          tareas_para_workers =
              tareas_sin_fallos(soup.cards, nombre_de_categoria(url_actual))


\* C13: within a category the listing page N+1 is never requested before every
\* worker dispatched for page N has finished and its result has been collected:
\* whenever a listing fetch is due or in progress no worker is queued or running,
\* and workers exist only while the driver waits in the pool of the last page
\* requested.
C13_PaginasEnSerie ==
    /\ pc \in {"pagina", "extraer"} =>
          /\ \A i \in DOMAIN wpc : wpc[i] = "hecho"
          /\ \A k \in 1..Len(cat_hist) :
                (k < Len(cat_hist) \/ pc = "pagina") =>
                    /\ cat_hist[k].recolectada
                    /\ Len(cat_hist[k].resultados) = Len(cat_hist[k].tareas)
          /\ pc = "pagina" => Len(cat_hist) = page - 1
    /\ (\E i \in DOMAIN wpc : wpc[i] # "hecho") =>
          /\ pc = "workers"
          /\ Len(cat_hist) = page
          /\ ~cat_hist[page].recolectada

C13_Witness ==
    /\ pc = "pagina"
    /\ page = 2
    /\ Len(wpc) = 2
    /\ \E i \in DOMAIN traza : traza[i] = <<"filtro", "sleep", "fetch", "detalle">>
    /\ Len(DATOS_RECOPILADOS) >= 1


(***************************************************************************)
(* The pool on its own: procesar_categoria at line 347, with a first page  *)
(* that has more candidates than the pool has threads                      *)
(***************************************************************************)
MaxTareas == 6     \* candidates of the page

\* the cards of the page: the first and the last match the filter
PaginaLlena ==
    [k \in 1..MaxTareas |->
        IF k \in {1, MaxTareas} THEN Card(ProdSal) ELSE Card(ProdEnsalada)]

InitPool ==
    /\ pc = "workers"
    /\ archivo \in {a \in Archivos : a.existe /\ LineasAFiltro(a.lineas) # {}}
    /\ LISTA_MINSA = LineasAFiltro(archivo.lineas)
    /\ cats = <<CatSalud>>
    /\ icat = 1
    /\ page = 1
    /\ soup = Listado(PaginaLlena, FALSE)
    /\ tareas_para_workers = tareas_de(PaginaLlena, nombre_de_categoria(CatSalud))
    /\ wpc = [i \in 1..MaxTareas |-> "cola"]
    /\ sopas = [i \in 1..MaxTareas |-> SinPedir]
    /\ resultados = [i \in 1..MaxTareas |-> None]
    /\ traza = [i \in 1..MaxTareas |-> <<>>]
    /\ DATOS_RECOPILADOS = <<>>
    /\ excel = [escrito |-> FALSE, filas |-> <<>>]
    /\ mundo = [listados |-> 0, cards |-> 0, relleno |-> 0]
    /\ peticiones = SetToBag({Peticion("home", URL_HOME, 0),
                              Peticion("listado", CatSalud, 1)})
    /\ cat_hist = <<[page |-> 1, estado |-> "cards", antes |-> 0,
                     siguiente |-> FALSE, recolectada |-> FALSE,
                     tareas |-> [i \in 1..MaxTareas |->
                                    [Nombre |-> tareas_para_workers[i]["Nombre"],
                                     URL |-> tareas_para_workers[i]["URL"]]],
                     resultados |-> <<>>, trazas |-> <<>>]>>
    /\ TextoInactivo

NextPool ==
    \/ \E i \in DOMAIN wpc : WorkerStart(i)
    \/ \E i \in DOMAIN wpc : WorkerFiltro(i)
    \/ \E i \in DOMAIN wpc : WorkerSleep(i)
    \/ \E i \in DOMAIN wpc : WorkerFetch(i)
    \/ \E i \in DOMAIN wpc : WorkerDetalle(i)
    \/ \E i \in DOMAIN wpc : WorkerExcepcion(i)
    \/ Recolectar
    \/ Guardar

SpecPool == InitPool /\ [][NextPool]_vars

\* the next step of a worker invocation that has passed the filter
PasoDeWorker(i) == WorkerSleep(i) \/ WorkerFetch(i) \/ WorkerDetalle(i)

\* C14: at every moment at most MAX_WORKERS worker invocations are executing,
\* so at most MAX_WORKERS detail fetches are in flight, however many candidates
\* the page has; and no worker waits on another: a worker that has started is
\* never held back, and once past the filter it can always take its next step
\* (the sleep, the fetch, the extraction) whatever the other workers are doing.
C14_PoolAcotado ==
    /\ Cardinality({i \in DOMAIN wpc : wpc[i] \in EnMarcha}) <= MAX_WORKERS
    /\ Cardinality({i \in DOMAIN wpc : wpc[i] = "fetch"}) <= MAX_WORKERS
    /\ \A i \in DOMAIN wpc :
          /\ wpc[i] \in EnMarcha => pc = "workers"
          /\ wpc[i] \in EnMarcha \ {"filtro"} => ENABLED PasoDeWorker(i)

C14_Witness ==
    /\ Len(wpc) > MAX_WORKERS
    /\ Cardinality({i \in DOMAIN wpc : wpc[i] \in EnMarcha}) = MAX_WORKERS
    /\ \E i \in DOMAIN wpc : wpc[i] = "cola"
    /\ \E i \in DOMAIN wpc : wpc[i] = "fetch"


\* the records of the results res, by increasing index of their candidate
EnOrdenDeTarjeta(res) ==
    LET buenos == Ordenar({i \in 1..Len(res) : res[i].tipo = "dict"})
    IN  [n \in 1..Len(buenos) |-> res[buenos[n]].val]

\* C15: the order of the records of the result collection is the traversal
\* order of their candidates (category, then page, then card within the page),
\* whatever the interleaving of the workers: the traversal only moves forward,
\* the collection only grows at its end, and it grows only when every worker of
\* the page has returned, by the records of that page in the order of their cards.
C15_OrdenDeRecorrido ==
    [][/\ icat' > icat \/ (icat' = icat /\ page' >= page)
       /\ DATOS_RECOPILADOS' # DATOS_RECOPILADOS =>
             /\ pc = "workers"
             /\ \A i \in DOMAIN wpc : wpc[i] = "hecho"
             /\ \A i \in DOMAIN resultados :
                   resultados[i].tipo = "dict" =>
                       /\ resultados[i].val["URL"] = cat_hist[Len(cat_hist)].tareas[i].URL
                       /\ resultados[i].val["Nombre"] = cat_hist[Len(cat_hist)].tareas[i].Nombre
             /\ DATOS_RECOPILADOS' = DATOS_RECOPILADOS \o EnOrdenDeTarjeta(resultados)
      ]_vars

C15_Witness ==
    /\ cat_hist # <<>>
    /\ LET e == cat_hist[Len(cat_hist)]
       IN  /\ e.recolectada
           /\ Len(e.resultados) = 2
           /\ e.resultados[1].tipo = "dict" /\ e.resultados[2].tipo = "dict"
           /\ e.resultados[1].val # e.resultados[2].val
           /\ Len(DATOS_RECOPILADOS) = e.antes + 2
           /\ DATOS_RECOPILADOS[e.antes + 1] = e.resultados[1].val
           /\ DATOS_RECOPILADOS[e.antes + 2] = e.resultados[2].val


(***************************************************************************)
(* The paginator on a long catalogue: a run over a site that can serve     *)
(* more listing pages than MAX_PAGES, each with one product card that has  *)
(* no title link (so that a page gives no candidate)                       *)
(***************************************************************************)
InitPaginas ==
    /\ pc = "inicio"
    /\ archivo \in Archivos
    /\ LISTA_MINSA = {}
    /\ cats = <<>>
    /\ icat = 0
    /\ page = 0
    /\ soup = ListadoNone
    /\ tareas_para_workers = <<>>
    /\ wpc = <<>>
    /\ sopas = <<>>
    /\ resultados = <<>>
    /\ DATOS_RECOPILADOS = <<>>
    /\ excel = [escrito |-> FALSE, filas |-> <<>>]
    /\ mundo = [listados |-> 0, cards |-> 0, relleno |-> MAX_PAGES + 1]
    /\ peticiones = EmptyBag
    /\ traza = <<>>
    /\ cat_hist = <<>>
    /\ TextoInactivo

NextPaginas ==
    \/ CargarFiltro
    \/ MainSinLista
    \/ Descubrir
    \/ IniciarCategoria
    \/ Guardar
    \/ ObtenerPagina
    \/ Extraer
    \/ Recolectar

\* the main thread is the only one that runs here, and it runs on
SpecPaginas == InitPaginas /\ [][NextPaginas]_vars /\ WF_vars(NextPaginas)

\* C16: page N+1 of a category is requested only if page N was fetched, had at
\* least one product card, carried a next link, and N < MAX_PAGES; so a category
\* requests at most MAX_PAGES listing pages (never page MAX_PAGES + 1), each page
\* number at most once, and always comes to its end, even when every page
\* advertises a next page.
C16_PaginasAcotadas ==
    /\ [](/\ page <= MAX_PAGES
          /\ Len(cat_hist) <= MAX_PAGES
          /\ \A req \in BagToSet(peticiones) :
                req.tipo = "listado" => req.page \in 1..MAX_PAGES
          /\ \A k \in 1..Len(cat_hist) :
                /\ cat_hist[k].page = k
                /\ k < Len(cat_hist) =>
                      /\ cat_hist[k].estado = "cards"
                      /\ cat_hist[k].recolectada
                      /\ cat_hist[k].siguiente
                      /\ k < MAX_PAGES)
    /\ [](pc \in {"pagina", "extraer", "workers"} => <>(pc = "categorias"))

C16_Witness ==
    /\ pc = "categorias"
    /\ Len(cat_hist) = MAX_PAGES
    /\ cat_hist[MAX_PAGES].estado = "cards"
    /\ cat_hist[MAX_PAGES].recolectada
    /\ cat_hist[MAX_PAGES].siguiente
    /\ \A k \in 1..MAX_PAGES : cat_hist[k].siguiente


\* how many times the url u stands in the list s
Veces(u, s) == Cardinality({k \in 1..Len(s) : s[k] = u})

\* the step is a listing fetch that failed
FalloDeListado ==
    /\ Len(cat_hist') = Len(cat_hist) + 1
    /\ cat_hist'[Len(cat_hist')].estado = "fallo"

\* C17: a failed fetch of a listing page ends only that category: the records
\* collected so far stay in the result collection, the run goes on with the
\* next category of the list (every category of the list is visited), and the
\* failed page is not requested again.
C17_FalloDeListadoLocal ==
    /\ [][FalloDeListado =>
             /\ pc = "pagina" /\ pc' = "categorias"
             /\ icat' = icat + 1
             /\ UNCHANGED <<cats, DATOS_RECOPILADOS>>
             /\ peticiones' = peticiones (+) SetToBag({Peticion("listado", cats[icat], page)})
         ]_vars
    /\ [][\A k \in 1..Len(DATOS_RECOPILADOS) :
             /\ k <= Len(DATOS_RECOPILADOS')
             /\ DATOS_RECOPILADOS'[k] = DATOS_RECOPILADOS[k]]_vars
    /\ [](\A req \in BagToSet(peticiones) :
             req.tipo = "listado" =>
                 CopiesIn(req, peticiones)
                     <= Veces(req.url, SubSeq(cats, 1, IF icat < Len(cats) THEN icat ELSE Len(cats))))
    /\ [](pc = "fin" =>
             \A k \in 1..Len(cats) :
                 CopiesIn(Peticion("listado", cats[k], 1), peticiones) = Veces(cats[k], cats))

C17_Witness ==
    /\ pc = "categorias"
    /\ Len(cats) = 2
    /\ icat = 2
    /\ Len(cat_hist) = 2
    /\ cat_hist[2].estado = "fallo"
    /\ Len(DATOS_RECOPILADOS) >= 1
    /\ Len(DATOS_RECOPILADOS) = cat_hist[2].antes


\* how many times the step p stands in the trace t
Pasos(p, t) == Cardinality({k \in 1..Len(t) : t[k] = p})

\* C18: a candidate that matches the filter and whose detail fetch fails still
\* gives exactly one record: the worker returns the fields of the candidate with
\* the five detail fields equal to the sentinel, after exactly one fetch attempt,
\* and does not return None.
C18_FetchFallidoDaRegistro ==
    \A i \in DOMAIN wpc :
        (sopas[i].pedida /\ ~sopas[i].ok) =>
            /\ cumple_filtro_minsa(tareas_para_workers[i]["Nombre"])
            /\ Pasos("fetch", traza[i]) = 1
            /\ Pasos("excepcion", traza[i]) = 0
            /\ wpc[i] \in {"detalle", "hecho"}
            /\ wpc[i] = "hecho" =>
                  /\ resultados[i].tipo = "dict"
                  /\ DOMAIN resultados[i].val =
                         CamposDetalle \cup {"Categoria", "Nombre", "Precio Minimo (S/)",
                                             "Precio Maximo (S/)", "URL"}
                  /\ \A c \in CamposDetalle : resultados[i].val[c] = NoEspecificado
                  /\ pc = "workers" =>
                        LET candidato == tareas_de(soup.cards, nombre_de_categoria(url_actual))[i]
                        IN  \A c \in DOMAIN candidato : resultados[i].val[c] = candidato[c]

C18_Witness ==
    \E i \in DOMAIN wpc :
        /\ wpc[i] = "hecho"
        /\ sopas[i] = DetalleNone
        /\ traza[i] = <<"filtro", "sleep", "fetch", "detalle">>
        /\ resultados[i].tipo = "dict"
        /\ resultados[i].val["Composicion"] = NoEspecificado


\* C19: once the reference set is built from the lines of the file, every entry
\* is the normalized form of some line and has at least 4 characters: a line
\* whose normalized form has 3 characters or fewer is never in the set.
C19_EntradasNormalizadas ==
    pc # "inicio" =>
        LET formas == [j \in 1..Len(archivo.lineas) |->
                          normalizar(Str(strip(archivo.lineas[j])))]
        IN  /\ \A med \in LISTA_MINSA :
                  /\ \E j \in 1..Len(formas) : med = formas[j]
                  /\ Len(med) >= 4
            /\ \A j \in 1..Len(formas) : Len(formas[j]) <= 3 => formas[j] \notin LISTA_MINSA


(***************************************************************************)
(* The detail extraction on its own (lines 230-273): Init draws the        *)
(* product page, one action reads it                                       *)
(***************************************************************************)
MaxBloques == 2    \* most accordion blocks, and most table rows, of a product page

BloquesPosibles ==
    {Bloque(TRUE, c, titulo, contenido) :
        c \in BOOLEAN,
        titulo \in {{"composici"}, {"descripci", "composici"}, {"advertencia"}},
        contenido \in {"Paracetamol 500 mg", "No especificado"}}
FilasPosibles ==
    {Fila(TRUE, td, label, "Sodio") :
        td \in BOOLEAN,
        label \in {{"composici"}, {"registro", "composici"}, {"sanitario"}}}
PaginasDeProducto(n) ==
    {Detalle(a, t) : a \in SeqHasta(BloquesPosibles, n),
                     t \in SeqHasta(FilasPosibles, n)}

InitDetalle ==
    /\ pc = "inactivo"
    /\ archivo = ArchivoAusente
    /\ LISTA_MINSA = {}
    /\ cats = <<>>
    /\ icat = 0
    /\ page = 0
    /\ soup = ListadoNone
    /\ tareas_para_workers = <<>>
    /\ wpc = <<>>
    /\ sopas \in {<<d>> : d \in PaginasDeProducto(MaxBloques)}
    /\ resultados = <<None>>
    /\ DATOS_RECOPILADOS = <<>>
    /\ excel = [escrito |-> FALSE, filas |-> <<>>]
    /\ mundo = [listados |-> 0, cards |-> 0, relleno |-> 0]
    /\ peticiones = EmptyBag
    /\ traza = <<>>
    /\ cat_hist = <<>>
    /\ fase = "entrada"
    /\ texto = None /\ variante = None
    /\ res1 = <<>> /\ res2 = <<>> /\ resv = <<>>
    /\ nombre_producto_web = <<>> /\ cumple = FALSE
    /\ texto_precio = None /\ precios = <<0, 0>>

AplicarDetalle ==
    /\ fase = "entrada"
    /\ resultados' = <<Dict(info_adicional(sopas[1]))>>
    /\ fase' = "hecho"
    /\ UNCHANGED <<pc, archivo, LISTA_MINSA, cats, icat, page, soup, tareas_para_workers,
                   wpc, sopas, DATOS_RECOPILADOS, excel, mundo, peticiones, traza,
                   cat_hist, texto, variante, res1, res2, resv, nombre_producto_web,
                   cumple, texto_precio, precios>>

NextDetalle == AplicarDetalle

SpecDetalle == InitDetalle /\ [][NextDetalle]_vars

\* the accordion blocks of the page that set the composition field
PonenComposicion(sopa) ==
    {k \in 1..Len(sopa.acordeon) :
        LET item == sopa.acordeon[k]
        IN  /\ item.t_tag /\ item.c_tag
            /\ "composici" \in item.titulo
            /\ item.titulo \cap {"descripci", "advertencia", "contraindicaci"} = {}}

\* C20: a composition found by the accordion pass is never overridden by the
\* attributes table: whenever some accordion block set the composition field,
\* the composition returned is the content of that block (of the last such
\* block) whatever rows the table has; the value of a table row is used only
\* when no accordion block set the field.
C20_ComposicionDelAcordeon ==
    fase = "hecho" =>
        LET sopa == sopas[1]
            composicion == resultados[1].val["Composicion"]
            puestos == PonenComposicion(sopa)
        IN  IF puestos # {}
            THEN composicion = sopa.acordeon[Max(puestos)].contenido
            ELSE \/ composicion = NoEspecificado
                 \/ \E k \in 1..Len(sopa.tabla) : composicion = sopa.tabla[k].valor


\* info_adicional after the loop over the accordion blocks, before the table
tras_acordeon(sopa) == Plegar(info_por_defecto, sopa.acordeon, FALSE)

\* the keyword of each field of the labeled-section pass
PalabraDeCampo ==
    ("Descripcion" :> "descripci") @@ ("Advertencias" :> "advertencia")
    @@ ("Contraindicaciones" :> "contraindicaci") @@ ("Composicion" :> "composici")

\* the accordion blocks with a title and a content whose title has the keyword
BloquesConPalabra(sopa, palabra) ==
    {k \in 1..Len(sopa.acordeon) :
        LET item == sopa.acordeon[k]
        IN  item.t_tag /\ item.c_tag /\ palabra \in item.titulo}

\* C21: in the labeled-section pass every field whose keyword occurs in the
\* title of a block that has a title and a content is set to the content of
\* that block, and a field hit by several blocks ends with the content of the
\* last of them in document order.
C21_CadaCampoDeSuBloque ==
    fase = "hecho" =>
        LET sopa == sopas[1]
            info == tras_acordeon(sopa)
        IN  \A campo \in DOMAIN PalabraDeCampo :
                LET bloques == BloquesConPalabra(sopa, PalabraDeCampo[campo])
                IN  bloques # {} => info[campo] = sopa.acordeon[Max(bloques)].contenido

\* the rows with a label and a value whose label names the registration
FilasDeRegistro(sopa) ==
    {k \in 1..Len(sopa.tabla) :
        LET row == sopa.tabla[k]
        IN  /\ row.th /\ row.td
            /\ ("registro" \in row.label \/ "sanitario" \in row.label)}

\* C22: in the attributes-table pass every row with a label cell and a value
\* cell whose label contains "registro" or contains "sanitario" sets the
\* registration field to the value of the row (the last such row is the one
\* the record keeps).
C22_RegistroOSanitario ==
    fase = "hecho" =>
        LET sopa == sopas[1]
            filas == FilasDeRegistro(sopa)
        IN  filas # {} =>
                resultados[1].val["Registro Sanitario"] = sopa.tabla[Max(filas)].valor


\* C24: the three tests of cumple_filtro_minsa come to the first one alone: for
\* every normalized name and every entry, "the name starts with the entry and
\* a space" and "the name equals the entry" each imply that the entry between
\* spaces occurs in the name between spaces, so the filter answers what the
\* first test alone answers.
C24_PrimerTestBasta ==
    fase = "hecho" =>
        LET n == normalizar(Str(nombre_producto_web))
        IN  /\ \A med \in EntradasFiltro :
                /\ inicio_de_frase(med, n) => palabra_entera(med, n)
                /\ igual(med, n) => palabra_entera(med, n)
                /\ coincide(med, n) <=> palabra_entera(med, n)
            /\ cumple <=> \E med \in LISTA_MINSA : palabra_entera(med, n)

C24_Witness ==
    /\ fase = "hecho"
    /\ nombre_producto_web = <<"S", "A", "L", " ", "A", "D", "A">>
    /\ LISTA_MINSA = {<<"S", "A", "L">>, <<"S", "A", "L", " ", "A", "D", "A">>}
    /\ inicio_de_frase(<<"S", "A", "L">>, nombre_producto_web)
    /\ igual(<<"S", "A", "L", " ", "A", "D", "A">>, nombre_producto_web)
    /\ cumple


\* the step is taken while the pool of the page runs and leaves it running:
\* it is the step of a thread of the pool
PasoDelPool == pc = "workers" /\ pc' = "workers"

\* the candidates of the page that the step writes
Escritos ==
    {i \in DOMAIN tareas_para_workers :
        tareas_para_workers'[i] # tareas_para_workers[i]}

\* C23: shared mutable state has a single writer: each candidate goes to one
\* worker invocation only, a worker writes its own candidate record and never
\* the result collection or the reference set, and the driver appends to the
\* result collection only when every worker of the page has finished; no step
\* writes two candidates, and the reference set does not change from the end
\* of loading to the end of the run.
C23_UnSoloEscritor ==
    [][/\ pc # "inicio" => LISTA_MINSA' = LISTA_MINSA
       /\ DATOS_RECOPILADOS' # DATOS_RECOPILADOS =>
             /\ pc = "workers" /\ pc' # "workers"
             /\ \A i \in DOMAIN wpc : wpc[i] = "hecho"
       /\ PasoDelPool =>
             /\ DATOS_RECOPILADOS' = DATOS_RECOPILADOS
             /\ DOMAIN tareas_para_workers' = DOMAIN tareas_para_workers
             /\ DOMAIN wpc' = DOMAIN wpc
             /\ Cardinality({i \in DOMAIN wpc : wpc'[i] # wpc[i]}) <= 1
             /\ \A i \in Escritos :
                   /\ wpc[i] = "detalle" /\ wpc'[i] = "hecho"
                   /\ Escritos = {i}
             /\ \A i \in DOMAIN wpc :
                   /\ wpc'[i] = "filtro" /\ wpc[i] # "filtro" =>
                         wpc[i] = "cola" /\ traza[i] = <<>>
                   /\ wpc[i] # "cola" => wpc'[i] # "cola"
                   /\ wpc[i] = "hecho" =>
                         /\ wpc'[i] = "hecho"
                         /\ tareas_para_workers'[i] = tareas_para_workers[i]
                         /\ resultados'[i] = resultados[i]
      ]_vars

C23_Witness ==
    /\ LISTA_MINSA # {}
    /\ LISTA_MINSA = LineasAFiltro(archivo.lineas)
    /\ Len(cat_hist) >= 1
    /\ LET h == cat_hist[Len(cat_hist)]
       IN  /\ h.recolectada
           /\ Len(h.trazas) = 2
           /\ \A i \in 1..2 : h.trazas[i] = <<"filtro", "sleep", "fetch", "detalle">>
           /\ DATOS_RECOPILADOS = <<h.resultados[1].val, h.resultados[2].val>>
           /\ h.resultados[1].val # h.resultados[2].val

====
